---- MODULE Spec2Model ----
(***************************************************************************)
(* Model of the calendar store module (src/src/store/calendars.js): the    *)
(* three state fields, the mutations, the actions with their suspension    *)
(* points at network requests, local storage under the key "calendars",    *)
(* and the auth token of the root state.                                   *)
(*                                                                         *)
(* A JavaScript object is a function from the names of its own properties  *)
(* to their values; a property that is absent is outside the DOMAIN.       *)
(* undefined/null arguments and results are the empty sequence, a present  *)
(* value v is <<v>>.                                                       *)
(***************************************************************************)
EXTENDS Integers, Sequences, FiniteSets, TLC

\* ---------------------------------------------------------------- bounds
MaxGen == 2         \* calls of uuidv4() in one behaviour
MaxLen == 2         \* longest localCalendars / apiCalendars
MaxSegs == 3        \* most segments of a request path
MaxSections == 2    \* most sections of a calendar

\* the uuids of the calendars that exist on the server
ServerUuids == {1, 2}
GenUuids == {100 + k : k \in 1..MaxGen}
AllUuids == ServerUuids \cup GenUuids
Names == {"A", "B"}

\* ------------------------------------------------------- JavaScript values
Min(a, b) == IF a < b THEN a ELSE b
Max(a, b) == IF a > b THEN a ELSE b

EmptyObject == [f \in {} |-> 0]

\* { ...a, ...b }: own properties of a, overridden and extended by those of b
Spread(a, b) ==
  [f \in (DOMAIN a) \cup (DOMAIN b) |-> IF f \in DOMAIN b THEN b[f] ELSE a[f]]

\* the object an argument spreads to: ...undefined contributes no property
ObjectOf(arg) == IF arg = <<>> THEN EmptyObject ELSE arg[1]

\* a.f === b.f, where an absent property reads as undefined
StrictEqField(a, b, f) ==
  IF f \in DOMAIN a /\ f \in DOMAIN b
    THEN a[f] = b[f]
    ELSE f \notin DOMAIN a /\ f \notin DOMAIN b

\* truthiness of c.f: an absent property is undefined, a uuid or a name is a
\* non-empty string, a flag is its own value
Truthy(c, f) == f \in DOMAIN c /\ (f \in {"is_public", "fromApi"} => c[f])

\* Array.prototype.findIndex, zero-based, -1 when no element satisfies P
FindIndex(arr, P(_)) ==
  LET hits == {i \in 1..Len(arr) : P(arr[i])}
  IN IF hits = {} THEN -1
     ELSE (CHOOSE i \in hits : \A j \in hits : i <= j) - 1

\* Array.prototype.splice(index, 1, item): a negative index counts from the
\* end, the start is clamped to the array, and at most one element is
\* removed
Splice(arr, index, item) ==
  LET len == Len(arr)
      start == IF index < 0 THEN Max(len + index, 0) ELSE Min(index, len)
      del == Min(1, len - start)
  IN SubSeq(arr, 1, start) \o <<item>> \o SubSeq(arr, start + del + 1, len)

\* Array.prototype.find, as <<element>> or <<>> (undefined)
Find(arr, P(_)) ==
  LET i == FindIndex(arr, P) IN IF i < 0 THEN <<>> ELSE <<arr[i + 1]>>

\* Array.prototype.map
Map(arr, F(_)) == [i \in 1..Len(arr) |-> F(arr[i])]

\* ----------------------------------------------------------- JSON text
\* JSON text is the sequence of its tokens.  Properties are written in the
\* order of FieldOrder.
FieldOrder == <<"uuid", "name", "is_public", "fromApi", "sections">>

Quote(s) == "\"" \o s \o "\""

RECURSIVE Join(_)
Join(parts) ==
  IF parts = <<>> THEN <<>>
  ELSE IF Len(parts) = 1 THEN parts[1]
  ELSE parts[1] \o <<",">> \o Join(Tail(parts))

StringifySection(s) ==
  <<"{", Quote("id"), ":", ToString(s.id), ",",
    Quote("code"), ":", Quote(s.code), "}">>

StringifyValue(f, v) ==
  CASE f = "uuid" -> <<Quote(ToString(v))>>
    [] f = "name" -> <<Quote(v)>>
    [] f \in {"is_public", "fromApi"} -> <<IF v THEN "true" ELSE "false">>
    [] f = "sections" -> <<"[">> \o Join(Map(v, StringifySection)) \o <<"]">>

\* a serialisation of the scalar properties only
StringifyCalendarScalars(c) ==
  LET present == SelectSeq(FieldOrder,
                           LAMBDA f : f \in DOMAIN c /\ f # "sections")
      Member(f) == <<Quote(f), ":">> \o StringifyValue(f, c[f])
  IN <<"{">> \o Join(Map(present, Member)) \o <<"}">>

StringifyCalendar(c) ==
  LET present == SelectSeq(FieldOrder, LAMBDA f : f \in DOMAIN c)
      Member(f) == <<Quote(f), ":">> \o StringifyValue(f, c[f])
  IN <<"{">> \o Join(Map(present, Member)) \o <<"}">>

\* JSON.stringify(state.localCalendars)
Stringify(cals) == <<"[">> \o Join(Map(cals, StringifyCalendar)) \o <<"]">>

SectionIds == 1..2
SectionCodes == {"c1", "c2"}

\* Parsers return [val |-> value, next |-> index of the first unread token]
ParseSection(t, i) ==
  \* t[i] = "{", then "id" : n , "code" : s }
  [val |-> [id |-> CHOOSE n \in SectionIds : ToString(n) = t[i + 3],
            code |-> CHOOSE s \in SectionCodes : Quote(s) = t[i + 7]],
   next |-> i + 9]

RECURSIVE ParseSections(_, _, _)
ParseSections(t, i, acc) ==
  IF t[i] = "]" THEN [val |-> acc, next |-> i + 1]
  ELSE IF t[i] = "," THEN ParseSections(t, i + 1, acc)
  ELSE LET s == ParseSection(t, i)
       IN ParseSections(t, s.next, Append(acc, s.val))

ParseValue(f, t, i) ==
  CASE f = "uuid" ->
         [val |-> CHOOSE u \in AllUuids : Quote(ToString(u)) = t[i],
          next |-> i + 1]
    [] f = "name" ->
         [val |-> CHOOSE n \in Names : Quote(n) = t[i], next |-> i + 1]
    [] f \in {"is_public", "fromApi"} ->
         [val |-> (t[i] = "true"), next |-> i + 1]
    [] f = "sections" -> ParseSections(t, i + 1, <<>>)

RECURSIVE ParseMembers(_, _, _)
ParseMembers(t, i, obj) ==
  IF t[i] = "}" THEN [val |-> obj, next |-> i + 1]
  ELSE IF t[i] = "," THEN ParseMembers(t, i + 1, obj)
  ELSE LET f == CHOOSE g \in DOMAIN FieldOrder : Quote(FieldOrder[g]) = t[i]
           v == ParseValue(FieldOrder[f], t, i + 2)
       IN ParseMembers(t, v.next, Spread(obj, FieldOrder[f] :> v.val))

RECURSIVE ParseElements(_, _, _)
ParseElements(t, i, acc) ==
  IF t[i] = "]" THEN [val |-> acc, next |-> i + 1]
  ELSE IF t[i] = "," THEN ParseElements(t, i + 1, acc)
  ELSE LET c == ParseMembers(t, i + 1, EmptyObject)
       IN ParseElements(t, c.next, Append(acc, c.val))

\* JSON.parse(localStorage.getItem("calendars")) ?? []: an absent key reads
\* as null, which parses to null
ParseStored(t) ==
  IF t = <<>> THEN <<>> ELSE ParseElements(t, 2, <<>>).val

\* ------------------------------------------------------------ mutations
\* a removal that stops at the first entry with the uuid
removeFirstLocalCalendar(cals, cal) ==
  LET i == FindIndex(cals, LAMBDA c : StrictEqField(c, cal, "uuid"))
  IN IF i < 0 THEN cals ELSE SubSeq(cals, 1, i) \o SubSeq(cals, i + 2, Len(cals))

\* removeLocalCalendar: filter((c) => c.uuid !== calendar.uuid)
removeLocalCalendar(cals, cal) ==
  SelectSeq(cals, LAMBDA c : ~StrictEqField(c, cal, "uuid"))

\* updateLocalCalendar: findIndex on the property uid, then splice
updateLocalCalendar(cals, cal) ==
  Splice(cals, FindIndex(cals, LAMBDA c : StrictEqField(c, cal, "uid")), cal)

\* a replacement that looks the entry up by the property uid
updateApiCalendarByUid(cals, cal) ==
  Splice(cals, FindIndex(cals, LAMBDA c : StrictEqField(c, cal, "uid")), cal)

\* updateApiCalendar: findIndex on the property uuid, then splice
updateApiCalendar(cals, cal) ==
  Splice(cals, FindIndex(cals, LAMBDA c : StrictEqField(c, cal, "uuid")), cal)

\* addLocalCalendar: push
addLocalCalendar(cals, cal) == Append(cals, cal)

\* ---------------------------------------------------------------- state
VARIABLES
  localCalendars,   \* state.localCalendars
  apiCalendars,     \* state.apiCalendars
  calendar,         \* state.calendar: <<>> (null / undefined) or <<c>>
  storage,          \* localStorage["calendars"]: JSON tokens, <<>> if absent
  token,            \* rootState.auth.token is set
  uuidCount,        \* calls of uuidv4() so far
  inflight,         \* per action: where its one suspended invocation waits
  ident,            \* which of the calendars the state holds are one object
  route,            \* the router's current route: <<>> before the first
  last              \* what the last step did

vars == <<localCalendars, apiCalendars, calendar, storage, token, uuidCount,
          inflight, ident, route, last>>

\* The state holds references.  ident gives, for every entry of
\* localCalendars and apiCalendars and for the selection, the object (o) and
\* the sections array (a) it refers to: two places with the same o are one
\* object, and commit("addSection") and removeSection write through the
\* selection to every place that shares its array or its object.  Names are
\* the position of the first place that holds them, so that equal sharing is
\* equal ident.
NewObject(k) == [o |-> 0 - k, a |-> 0 - k]
\* { ...c }: a new object with the sections array of the one it copies
ShallowCopy(k, e) == [o |-> 0 - k, a |-> e.a]
NewObjects(cals) == [i \in 1..Len(cals) |-> NewObject(i)]

Canon(h) ==
  LET all == h.local \o h.api \o h.sel
      First(S) == CHOOSE i \in S : \A j \in S : i <= j
      Rep(e) == [o |-> First({i \in 1..Len(all) : all[i].o = e.o}),
                 a |-> First({i \in 1..Len(all) : all[i].a = e.a})]
  IN [local |-> Map(h.local, Rep), api |-> Map(h.api, Rep),
      sel |-> Map(h.sel, Rep)]

Refer(l, a, s) == ident' = Canon([local |-> l, api |-> a, sel |-> s])

\* the k-th value uuidv4() returns
uuidv4(k) == 100 + k

Kinds == {"getApiCalendars", "deleteCalendar", "createCalendar",
          "updateCalendar", "togglePrivacy", "getApiCalendarByUuid",
          "saveSharedCalendarToAPI", "saveAndDuplicateSharedCalendar"}

Idle == [pc |-> "idle", net |-> <<>>]
\* one invocation of each action is followed at a time
CanSuspend(k) == inflight[k].pc = "idle"

\* what the server can answer with
ServerCalendars ==
  {[uuid |-> u, name |-> "A", is_public |-> p, sections |-> <<>>] :
     u \in ServerUuids, p \in BOOLEAN}
ServerLists ==
  {<<>>} \cup {<<c>> : c \in ServerCalendars}
  \cup {l \in {<<c, d>> : c \in ServerCalendars, d \in ServerCalendars} :
          l[1].uuid # l[2].uuid}

\* what callers pass
SharedCalendars == {c \in ServerCalendars : c.is_public}
NewCalendars == {[name |-> "A"]}
LegacyLists == {<<>>, <<[name |-> "A"]>>}
Range(seq) == {seq[i] : i \in 1..Len(seq)}
Known == Range(localCalendars) \cup Range(apiCalendars) \cup Range(calendar)

\* results of an action's promise
Pending == [status |-> "pending", val |-> <<>>]
Resolved(v) == [status |-> "resolved", val |-> v]
Rejected(msg) == [status |-> "rejected", val |-> <<msg>>]

\* act: the action and the step of it that ran; out: how the request it was
\* waiting for ended; effects: what the step did, in order; net: the
\* requests the invocation has issued so far; ret: the action's promise;
\* note: the argument of the invocation, where a property reads it
DidNote(act, out, effects, net, ret, note) ==
  last' = [act |-> act, out |-> out, effects |-> effects, net |-> net,
           ret |-> ret, note |-> note]
Did(act, out, effects, net, ret) ==
  DidNote(act, out, effects, net, ret, <<>>)

Init ==
  /\ localCalendars = <<>>
  /\ apiCalendars = <<>>
  /\ calendar = <<>>
  /\ storage = <<>>
  /\ token = FALSE
  /\ uuidCount = 0
  /\ inflight = [k \in Kinds |-> Idle]
  /\ ident = [local |-> <<>>, api |-> <<>>, sel |-> <<>>]
  /\ route = <<>>
  /\ last = [act |-> "init", out |-> "", effects |-> <<>>, net |-> <<>>,
             ret |-> Pending, note |-> <<>>]

\* ------------------------------------------------------ the environment
\* the auth module sets and clears rootState.auth.token
login ==
  /\ ~token
  /\ token' = TRUE
  /\ Did("login", "", <<>>, <<>>, Pending)
  /\ UNCHANGED <<localCalendars, apiCalendars, calendar, storage, uuidCount,
                 inflight, ident, route>>

logout ==
  /\ token
  /\ token' = FALSE
  /\ Did("logout", "", <<>>, <<>>, Pending)
  /\ UNCHANGED <<localCalendars, apiCalendars, calendar, storage, uuidCount,
                 inflight, ident, route>>

\* ------------------------------------------------- actions, local only
\* calendar.uuid ? calendar : { uuid: uuidv4(), ...calendar }, left to right
\* a migration that gives every calendar a new uuid, the calendar's own
\* uuid not being looked at
RECURSIVE WithNewUuids(_, _)
WithNewUuids(cals, n) ==
  IF cals = <<>> THEN <<>>
  ELSE <<Spread(Head(cals), [uuid |-> uuidv4(n + 1)])>>
       \o WithNewUuids(Tail(cals), n + 1)

RECURSIVE WithUuids(_, _)
WithUuids(cals, n) ==
  IF cals = <<>> THEN <<>>
  ELSE IF Truthy(Head(cals), "uuid")
    THEN <<Head(cals)>> \o WithUuids(Tail(cals), n)
    ELSE <<Spread([uuid |-> uuidv4(n + 1)], Head(cals))>>
         \o WithUuids(Tail(cals), n + 1)

\* the objects of the migrated list: a calendar with a uuid is kept, the
\* others are copied
WithUuidsRefs ==
  [i \in 1..Len(localCalendars) |->
     IF Truthy(localCalendars[i], "uuid")
       THEN ident.local[i] ELSE ShallowCopy(i, ident.local[i])]

Missing(cals) == Cardinality({i \in 1..Len(cals) : ~Truthy(cals[i], "uuid")})

\* a migration that commits the list and leaves storage to its caller
addUuidToCalendarsCommitOnly ==
  /\ uuidCount + Missing(localCalendars) <= MaxGen
  /\ localCalendars' = WithUuids(localCalendars, uuidCount)
  /\ uuidCount' = uuidCount + Missing(localCalendars)
  /\ Refer(WithUuidsRefs, ident.api, ident.sel)
  /\ DidNote("addUuidToCalendars", "", <<"commit setLocalCalendars">>, <<>>,
             Resolved(<<>>), <<localCalendars>>)
  /\ UNCHANGED <<apiCalendars, calendar, storage, token, inflight, route>>

addUuidToCalendars ==
  /\ uuidCount + Missing(localCalendars) <= MaxGen
  /\ localCalendars' = WithUuids(localCalendars, uuidCount)
  /\ uuidCount' = uuidCount + Missing(localCalendars)
  /\ Refer(WithUuidsRefs, ident.api, ident.sel)
  /\ storage' = Stringify(localCalendars')
  /\ DidNote("addUuidToCalendars", "",
             <<"commit setLocalCalendars", "setItem">>, <<>>, Resolved(<<>>),
             <<localCalendars>>)
  /\ UNCHANGED <<apiCalendars, calendar, token, inflight, route>>

getLocalCalendars ==
  /\ localCalendars' = ParseStored(storage)
  /\ Refer(NewObjects(localCalendars'), ident.api, ident.sel)
  /\ Did("getLocalCalendars", "",
         <<"getItem", "commit setLocalCalendars">>, <<>>, Resolved(<<>>))
  /\ UNCHANGED <<apiCalendars, calendar, storage, token, uuidCount, inflight,
                 route>>

saveLocalCalendars ==
  /\ storage' = Stringify(localCalendars)
  /\ Did("saveLocalCalendars", "", <<"setItem">>, <<>>, Resolved(<<>>))
  /\ UNCHANGED <<localCalendars, apiCalendars, calendar, token, uuidCount,
                 inflight, ident, route>>

setLocalCalendars(calendars) ==
  /\ localCalendars' = calendars
  /\ Refer(NewObjects(calendars), ident.api, ident.sel)
  /\ storage' = Stringify(localCalendars')
  /\ Did("setLocalCalendars", "",
         <<"commit setLocalCalendars", "setItem">>, <<>>, Resolved(<<>>))
  /\ UNCHANGED <<apiCalendars, calendar, token, uuidCount, inflight, route>>

\* saveSharedCalendar: the calendar it adds, uuidv4() returning its n-th value
SharedCopy(sharedCalendar, n) ==
  Spread([uuid |-> uuidv4(n)], sharedCalendar)

saveSharedCalendar(sharedCalendar) ==
  /\ uuidCount < MaxGen
  /\ Len(localCalendars) < MaxLen
  /\ uuidCount' = uuidCount + 1
  /\ localCalendars' =
       addLocalCalendar(localCalendars, SharedCopy(sharedCalendar, uuidCount'))
  /\ Refer(Append(ident.local, NewObject(0)), ident.api, ident.sel)
  /\ storage' = Stringify(localCalendars')
  /\ Did("saveSharedCalendar", "",
         <<"commit addLocalCalendar", "setItem">>, <<>>, Resolved(<<>>))
  /\ UNCHANGED <<apiCalendars, calendar, token, inflight, route>>

getLocalCalendarByUuid(uuid) ==
  /\ calendar' = Find(localCalendars,
                      LAMBDA c : "uuid" \in DOMAIN c /\ c.uuid = uuid)
  /\ Refer(ident.local, ident.api,
           LET i == FindIndex(localCalendars,
                              LAMBDA c : "uuid" \in DOMAIN c /\ c.uuid = uuid)
           IN IF i < 0 THEN <<>> ELSE <<ident.local[i + 1]>>)
  /\ Did("getLocalCalendarByUuid", "", <<"commit setCalendar">>, <<>>,
         Resolved(<<>>))
  /\ UNCHANGED <<localCalendars, apiCalendars, storage, token, uuidCount,
                 inflight, route>>

\* -------------------------------------------- actions with requests
Suspend(k, rec) == inflight' = [inflight EXCEPT ![k] = rec]
Resume(k) == inflight' = [inflight EXCEPT ![k] = Idle]
FromApi(c) == Spread(c, [fromApi |-> TRUE])
HasUuid(c, uuid) == "uuid" \in DOMAIN c /\ c.uuid = uuid

getApiCalendars ==
  /\ CanSuspend("getApiCalendars")
  /\ Suspend("getApiCalendars", [pc |-> "GET", net |-> <<"GET">>])
  /\ Did("getApiCalendars", "", <<"GET">>, <<"GET">>, Pending)
  /\ UNCHANGED <<localCalendars, apiCalendars, calendar, storage, token,
                 uuidCount, ident, route>>

getApiCalendarsOk(data) ==
  /\ inflight["getApiCalendars"].pc = "GET"
  /\ Resume("getApiCalendars")
  /\ apiCalendars' = Map(data, FromApi)
  /\ Refer(ident.local, NewObjects(data), ident.sel)
  /\ Did("getApiCalendars:response", "ok", <<"commit setApiCalendars">>,
         inflight["getApiCalendars"].net, Resolved(<<apiCalendars'>>))
  /\ UNCHANGED <<localCalendars, calendar, storage, token, uuidCount, route>>

getApiCalendarsFail ==
  /\ inflight["getApiCalendars"].pc = "GET"
  /\ Resume("getApiCalendars")
  /\ Did("getApiCalendars:response", "fail", <<"console.log">>,
         inflight["getApiCalendars"].net, Resolved(<<>>))
  /\ UNCHANGED <<localCalendars, apiCalendars, calendar, storage, token,
                 uuidCount, ident, route>>

deleteCalendar(cal) ==
  /\ CanSuspend("deleteCalendar")
  /\ localCalendars' = removeLocalCalendar(localCalendars, cal)
  /\ Refer(LET kept == SelectSeq([i \in 1..Len(localCalendars) |-> i],
                                 LAMBDA i : ~StrictEqField(localCalendars[i],
                                                           cal, "uuid"))
           IN [k \in 1..Len(kept) |-> ident.local[kept[k]]],
           ident.api, ident.sel)
  /\ storage' = Stringify(localCalendars')
  /\ Suspend("deleteCalendar",
             [pc |-> "DELETE", cal |-> cal, net |-> <<"DELETE">>])
  /\ DidNote("deleteCalendar", "",
             <<"commit removeLocalCalendar", "setItem", "DELETE">>,
             <<"DELETE">>, Pending, <<cal>>)
  /\ UNCHANGED <<apiCalendars, calendar, token, uuidCount, route>>

deleteCalendarOk ==
  /\ inflight["deleteCalendar"].pc = "DELETE"
  /\ Resume("deleteCalendar")
  /\ DidNote("deleteCalendar:response", "ok", <<>>,
             inflight["deleteCalendar"].net, Resolved(<<>>),
             <<inflight["deleteCalendar"].cal>>)
  /\ UNCHANGED <<localCalendars, apiCalendars, calendar, storage, token,
                 uuidCount, ident, route>>

deleteCalendarFail ==
  /\ inflight["deleteCalendar"].pc = "DELETE"
  /\ Resume("deleteCalendar")
  /\ DidNote("deleteCalendar:response", "fail", <<>>,
             inflight["deleteCalendar"].net, Resolved(<<>>),
             <<inflight["deleteCalendar"].cal>>)
  /\ UNCHANGED <<localCalendars, apiCalendars, calendar, storage, token,
                 uuidCount, ident, route>>

\* a created calendar that is the bare input
CreatedLocallyNoUuid(arg, n) == ObjectOf(arg)

\* the local branch of createCalendar: the calendar it adds, uuidv4()
\* returning its n-th value
CreatedLocally(arg, n) == Spread([uuid |-> uuidv4(n)], ObjectOf(arg))

createCalendarLocal(cal) ==
  /\ ~token
  /\ uuidCount < MaxGen
  /\ Len(localCalendars) < MaxLen
  /\ uuidCount' = uuidCount + 1
  /\ localCalendars' =
       addLocalCalendar(localCalendars, CreatedLocally(<<cal>>, uuidCount'))
  /\ Refer(Append(ident.local, NewObject(0)), ident.api, ident.sel)
  /\ storage' = Stringify(localCalendars')
  /\ DidNote("createCalendar", "", <<"commit addLocalCalendar", "setItem">>,
             <<>>, Resolved(<<cal>>), <<cal>>)
  /\ UNCHANGED <<apiCalendars, calendar, token, inflight, route>>

createCalendar(cal) ==
  /\ token
  /\ CanSuspend("createCalendar")
  /\ Suspend("createCalendar", [pc |-> "POST", net |-> <<"POST">>])
  /\ Did("createCalendar", "", <<"POST">>, <<"POST">>, Pending)
  /\ UNCHANGED <<localCalendars, apiCalendars, calendar, storage, token,
                 uuidCount, ident, route>>

createCalendarOk(data) ==
  /\ inflight["createCalendar"].pc = "POST"
  /\ Resume("createCalendar")
  /\ Did("createCalendar:response", "ok", <<>>,
         inflight["createCalendar"].net, Resolved(<<data>>))
  /\ UNCHANGED <<localCalendars, apiCalendars, calendar, storage, token,
                 uuidCount, ident, route>>

createCalendarFail ==
  /\ inflight["createCalendar"].pc = "POST"
  /\ Resume("createCalendar")
  /\ Did("createCalendar:response", "fail", <<"console.error">>,
         inflight["createCalendar"].net, Resolved(<<>>))
  /\ UNCHANGED <<localCalendars, apiCalendars, calendar, storage, token,
                 uuidCount, ident, route>>

updateCalendarLocal(cal) ==
  /\ ~Truthy(cal, "fromApi")
  /\ localCalendars' = updateLocalCalendar(localCalendars, cal)
  /\ Refer(Splice(ident.local,
                  FindIndex(localCalendars,
                            LAMBDA c : StrictEqField(c, cal, "uid")),
                  NewObject(0)),
           ident.api, ident.sel)
  /\ Len(localCalendars') <= MaxLen
  /\ storage' = Stringify(localCalendars')
  /\ Did("updateCalendar", "", <<"commit updateLocalCalendar", "setItem">>,
         <<>>, Resolved(<<>>))
  /\ UNCHANGED <<apiCalendars, calendar, token, uuidCount, inflight, route>>

updateCalendar(cal) ==
  /\ Truthy(cal, "fromApi")
  /\ CanSuspend("updateCalendar")
  /\ Suspend("updateCalendar", [pc |-> "PUT", cal |-> cal, net |-> <<"PUT">>])
  /\ Did("updateCalendar", "", <<"PUT">>, <<"PUT">>, Pending)
  /\ UNCHANGED <<localCalendars, apiCalendars, calendar, storage, token,
                 uuidCount, ident, route>>

\* the PUT succeeded: calendar.sections.map(...) throws into the catch when
\* the calendar has no sections, else the POST of the section ids goes out
updateCalendarPutOk(data) ==
  /\ inflight["updateCalendar"].pc = "PUT"
  /\ HasUuid(inflight["updateCalendar"].cal, data.uuid)
  /\ IF "sections" \in DOMAIN inflight["updateCalendar"].cal
       THEN /\ Suspend("updateCalendar",
                       [pc |-> "POST", response |-> data,
                        net |-> Append(inflight["updateCalendar"].net,
                                       "POST sections")])
            /\ DidNote("updateCalendar:put", "ok", <<"POST sections">>,
                       inflight'["updateCalendar"].net, Pending,
                       <<inflight["updateCalendar"].cal>>)
       ELSE /\ Resume("updateCalendar")
            /\ DidNote("updateCalendar:put", "ok", <<"console.error">>,
                       inflight["updateCalendar"].net, Resolved(<<>>),
                       <<inflight["updateCalendar"].cal>>)
  /\ UNCHANGED <<localCalendars, apiCalendars, calendar, storage, token,
                 uuidCount, ident, route>>

\* a failed PUT that is logged and followed by the POST all the same
updateCalendarPutFailThenPost ==
  /\ inflight["updateCalendar"].pc = "PUT"
  /\ Suspend("updateCalendar",
             [pc |-> "POST", response |-> EmptyObject,
              net |-> Append(inflight["updateCalendar"].net, "POST sections")])
  /\ DidNote("updateCalendar:put", "fail", <<"console.error", "POST sections">>,
             inflight'["updateCalendar"].net, Pending,
             <<inflight["updateCalendar"].cal>>)
  /\ UNCHANGED <<localCalendars, apiCalendars, calendar, storage, token,
                 uuidCount, ident, route>>

updateCalendarPutFail ==
  /\ inflight["updateCalendar"].pc = "PUT"
  /\ Resume("updateCalendar")
  /\ DidNote("updateCalendar:put", "fail", <<"console.error">>,
             inflight["updateCalendar"].net, Resolved(<<>>),
             <<inflight["updateCalendar"].cal>>)
  /\ UNCHANGED <<localCalendars, apiCalendars, calendar, storage, token,
                 uuidCount, ident, route>>

updateCalendarPostOk ==
  /\ inflight["updateCalendar"].pc = "POST"
  /\ Resume("updateCalendar")
  /\ Did("updateCalendar:post", "ok", <<>>, inflight["updateCalendar"].net,
         Resolved(<<inflight["updateCalendar"].response>>))
  /\ UNCHANGED <<localCalendars, apiCalendars, calendar, storage, token,
                 uuidCount, ident, route>>

updateCalendarPostFail ==
  /\ inflight["updateCalendar"].pc = "POST"
  /\ Resume("updateCalendar")
  /\ Did("updateCalendar:post", "fail", <<"console.error">>,
         inflight["updateCalendar"].net, Resolved(<<>>))
  /\ UNCHANGED <<localCalendars, apiCalendars, calendar, storage, token,
                 uuidCount, ident, route>>

\* a lookup that misses and is not noticed: the PATCH goes out all the same
togglePrivacyNotFoundPatches(uuid) ==
  /\ Find(apiCalendars, LAMBDA c : HasUuid(c, uuid)) = <<>>
  /\ CanSuspend("togglePrivacy")
  /\ Suspend("togglePrivacy",
             [pc |-> "PATCH", uuid |-> uuid, is_public |-> TRUE,
              net |-> <<"PATCH">>])
  /\ Did("togglePrivacy", "", <<"PATCH">>, <<"PATCH">>, Pending)
  /\ UNCHANGED <<localCalendars, apiCalendars, calendar, storage, token,
                 uuidCount, ident, route>>

togglePrivacyNotFound(uuid) ==
  /\ Find(apiCalendars, LAMBDA c : HasUuid(c, uuid)) = <<>>
  /\ Did("togglePrivacy", "", <<>>, <<>>, Rejected("Calendar not found"))
  /\ UNCHANGED <<localCalendars, apiCalendars, calendar, storage, token,
                 uuidCount, inflight, ident, route>>

togglePrivacy(uuid) ==
  LET found == Find(apiCalendars, LAMBDA c : HasUuid(c, uuid))
  IN /\ found # <<>>
     /\ CanSuspend("togglePrivacy")
     /\ Suspend("togglePrivacy",
                [pc |-> "PATCH", uuid |-> uuid,
                 is_public |-> ~Truthy(found[1], "is_public"),
                 net |-> <<"PATCH">>])
     /\ Did("togglePrivacy", "", <<"PATCH">>, <<"PATCH">>, Pending)
     /\ UNCHANGED <<localCalendars, apiCalendars, calendar, storage, token,
                    uuidCount, ident, route>>

togglePrivacyOk(data) ==
  /\ inflight["togglePrivacy"].pc = "PATCH"
  /\ data.uuid = inflight["togglePrivacy"].uuid
  /\ Resume("togglePrivacy")
  /\ LET apiCalendar == FromApi(data)
     IN /\ apiCalendars' = updateApiCalendar(apiCalendars, apiCalendar)
        /\ Refer(ident.local,
                 Splice(ident.api,
                        FindIndex(apiCalendars,
                                  LAMBDA c : StrictEqField(c, apiCalendar,
                                                           "uuid")),
                        NewObject(0)),
                 <<NewObject(0)>>)
        /\ Len(apiCalendars') <= MaxLen
        /\ calendar' = <<apiCalendar>>
        /\ Did("togglePrivacy:response", "ok",
               <<"commit updateApiCalendar", "commit setCalendar">>,
               inflight["togglePrivacy"].net, Resolved(<<apiCalendar>>))
  /\ UNCHANGED <<localCalendars, storage, token, uuidCount, route>>

togglePrivacyFail ==
  /\ inflight["togglePrivacy"].pc = "PATCH"
  /\ Resume("togglePrivacy")
  /\ Did("togglePrivacy:response", "fail", <<>>,
         inflight["togglePrivacy"].net, Rejected("request failed"))
  /\ UNCHANGED <<localCalendars, apiCalendars, calendar, storage, token,
                 uuidCount, ident, route>>

getApiCalendarByUuid(uuid) ==
  /\ CanSuspend("getApiCalendarByUuid")
  /\ Suspend("getApiCalendarByUuid",
             [pc |-> "GET", uuid |-> uuid, net |-> <<"GET">>])
  /\ Did("getApiCalendarByUuid", "", <<"GET">>, <<"GET">>, Pending)
  /\ UNCHANGED <<localCalendars, apiCalendars, calendar, storage, token,
                 uuidCount, ident, route>>

getApiCalendarByUuidOk(data) ==
  /\ inflight["getApiCalendarByUuid"].pc = "GET"
  /\ data.uuid = inflight["getApiCalendarByUuid"].uuid
  /\ Resume("getApiCalendarByUuid")
  /\ calendar' = <<FromApi(data)>>
  /\ Refer(ident.local, ident.api, <<NewObject(0)>>)
  /\ Did("getApiCalendarByUuid:response", "ok", <<"commit setCalendar">>,
         inflight["getApiCalendarByUuid"].net, Resolved(<<data>>))
  /\ UNCHANGED <<localCalendars, apiCalendars, storage, token, uuidCount,
                 route>>

getApiCalendarByUuidFail ==
  /\ inflight["getApiCalendarByUuid"].pc = "GET"
  /\ Resume("getApiCalendarByUuid")
  /\ Did("getApiCalendarByUuid:response", "fail", <<>>,
         inflight["getApiCalendarByUuid"].net, Resolved(<<>>))
  /\ UNCHANGED <<localCalendars, apiCalendars, calendar, storage, token,
                 uuidCount, ident, route>>

saveSharedCalendarToAPINoToken ==
  /\ ~token
  /\ Did("saveSharedCalendarToAPI", "", <<>>, <<>>,
         Rejected("El usuario no esta autenticado"))
  /\ UNCHANGED <<localCalendars, apiCalendars, calendar, storage, token,
                 uuidCount, inflight, ident, route>>

saveSharedCalendarToAPI ==
  /\ token
  /\ CanSuspend("saveSharedCalendarToAPI")
  /\ Suspend("saveSharedCalendarToAPI", [pc |-> "POST", net |-> <<"POST">>])
  /\ Did("saveSharedCalendarToAPI", "", <<"POST">>, <<"POST">>, Pending)
  /\ UNCHANGED <<localCalendars, apiCalendars, calendar, storage, token,
                 uuidCount, ident, route>>

\* an append to the list the state object was declared with
saveSharedCalendarToAPIOkDeclaredState(data) ==
  /\ inflight["saveSharedCalendarToAPI"].pc = "POST"
  /\ Resume("saveSharedCalendarToAPI")
  /\ apiCalendars' = Append(<<>>, data)
  /\ Refer(ident.local, <<NewObject(0)>>, ident.sel)
  /\ Did("saveSharedCalendarToAPI:response", "ok",
         <<"commit setApiCalendars">>, inflight["saveSharedCalendarToAPI"].net,
         Resolved(<<data>>))
  /\ UNCHANGED <<localCalendars, calendar, storage, token, uuidCount, route>>

\* [...state.apiCalendars, response.data]: state is the module's own state
\* object, read when the response arrives
saveSharedCalendarToAPIOk(data) ==
  /\ inflight["saveSharedCalendarToAPI"].pc = "POST"
  /\ Len(apiCalendars) < MaxLen
  /\ Resume("saveSharedCalendarToAPI")
  /\ apiCalendars' = Append(apiCalendars, data)
  /\ Refer(ident.local, Append(ident.api, NewObject(0)), ident.sel)
  /\ Did("saveSharedCalendarToAPI:response", "ok",
         <<"commit setApiCalendars">>, inflight["saveSharedCalendarToAPI"].net,
         Resolved(<<data>>))
  /\ UNCHANGED <<localCalendars, calendar, storage, token, uuidCount, route>>

saveSharedCalendarToAPIFail ==
  /\ inflight["saveSharedCalendarToAPI"].pc = "POST"
  /\ Resume("saveSharedCalendarToAPI")
  /\ Did("saveSharedCalendarToAPI:response", "fail", <<"console.error">>,
         inflight["saveSharedCalendarToAPI"].net, Rejected("request failed"))
  /\ UNCHANGED <<localCalendars, apiCalendars, calendar, storage, token,
                 uuidCount, ident, route>>

saveAndDuplicateSharedCalendar(uuid) ==
  /\ CanSuspend("saveAndDuplicateSharedCalendar")
  /\ Suspend("saveAndDuplicateSharedCalendar",
             [pc |-> "GET", uuid |-> uuid, net |-> <<"GET">>])
  /\ Did("saveAndDuplicateSharedCalendar", "", <<"GET">>, <<"GET">>, Pending)
  /\ UNCHANGED <<localCalendars, apiCalendars, calendar, storage, token,
                 uuidCount, ident, route>>

\* the fetch failed: getApiCalendarByUuid returned null
saveAndDuplicateFetchFail ==
  /\ inflight["saveAndDuplicateSharedCalendar"].pc = "GET"
  /\ Resume("saveAndDuplicateSharedCalendar")
  /\ Did("saveAndDuplicateSharedCalendar:fetch", "fail", <<"alert error">>,
         inflight["saveAndDuplicateSharedCalendar"].net, Resolved(<<>>))
  /\ UNCHANGED <<localCalendars, apiCalendars, calendar, storage, token,
                 uuidCount, ident, route>>

\* the fetch succeeded: getApiCalendarByUuid selects the calendar,
\* saveSharedCalendar runs and resolves to undefined, and createCalendar is
\* dispatched with that result
saveAndDuplicateFetchOk(data) ==
  LET newCalendar == <<>>
      afterSave ==
        addLocalCalendar(localCalendars, SharedCopy(data, uuidCount + 1))
  IN /\ inflight["saveAndDuplicateSharedCalendar"].pc = "GET"
     /\ data.uuid = inflight["saveAndDuplicateSharedCalendar"].uuid
     /\ calendar' = <<FromApi(data)>>
     /\ IF token
          THEN /\ uuidCount + 1 <= MaxGen
               /\ Len(localCalendars) + 1 <= MaxLen
               /\ uuidCount' = uuidCount + 1
               /\ localCalendars' = afterSave
               /\ Refer(Append(ident.local, ShallowCopy(1, NewObject(0))),
                        ident.api, <<NewObject(0)>>)
               /\ Suspend("saveAndDuplicateSharedCalendar",
                          [pc |-> "POST",
                           net |-> Append(
                             inflight["saveAndDuplicateSharedCalendar"].net,
                             "POST")])
               /\ DidNote("saveAndDuplicateSharedCalendar:fetch", "ok",
                          <<"commit setCalendar", "commit addLocalCalendar",
                            "setItem", "POST">>,
                          inflight'["saveAndDuplicateSharedCalendar"].net,
                          Pending, <<newCalendar>>)
          ELSE /\ uuidCount + 2 <= MaxGen
               /\ Len(localCalendars) + 2 <= MaxLen
               /\ uuidCount' = uuidCount + 2
               /\ localCalendars' =
                    addLocalCalendar(afterSave,
                                     CreatedLocally(newCalendar, uuidCount'))
               /\ Refer(ident.local
                          \o <<ShallowCopy(1, NewObject(0)), NewObject(2)>>,
                        ident.api, <<NewObject(0)>>)
               /\ Resume("saveAndDuplicateSharedCalendar")
               /\ DidNote("saveAndDuplicateSharedCalendar:fetch", "ok",
                          <<"commit setCalendar", "commit addLocalCalendar",
                            "setItem", "commit addLocalCalendar", "setItem",
                            "alert success">>,
                          inflight["saveAndDuplicateSharedCalendar"].net,
                          Resolved(<<>>), <<newCalendar>>)
     /\ storage' = Stringify(localCalendars')
     /\ UNCHANGED <<apiCalendars, token, route>>

saveAndDuplicatePushOk ==
  /\ inflight["saveAndDuplicateSharedCalendar"].pc = "POST"
  /\ Resume("saveAndDuplicateSharedCalendar")
  /\ Did("saveAndDuplicateSharedCalendar:push", "ok", <<"alert success">>,
         inflight["saveAndDuplicateSharedCalendar"].net, Resolved(<<>>))
  /\ UNCHANGED <<localCalendars, apiCalendars, calendar, storage, token,
                 uuidCount, ident, route>>

\* createCalendar catches the failed POST and resolves to undefined
saveAndDuplicatePushFail ==
  /\ inflight["saveAndDuplicateSharedCalendar"].pc = "POST"
  /\ Resume("saveAndDuplicateSharedCalendar")
  /\ Did("saveAndDuplicateSharedCalendar:push", "fail",
         <<"console.error", "alert success">>,
         inflight["saveAndDuplicateSharedCalendar"].net, Resolved(<<>>))
  /\ UNCHANGED <<localCalendars, apiCalendars, calendar, storage, token,
                 uuidCount, ident, route>>

\* ------------------------------------------- actions of the editor
\* what the editor adds and removes
Sections == {[id |-> 1, code |-> "c1"], [id |-> 2, code |-> "c2"]}

\* commit of a mutation that is not declared: the store reports the unknown
\* type and changes nothing; the list is then saved as it is
addCalendar(cal) ==
  /\ uuidCount < MaxGen
  /\ uuidCount' = uuidCount + 1
  /\ storage' = Stringify(localCalendars)
  /\ DidNote("addCalendar", "", <<"commit addCalendar", "setItem">>, <<>>,
             Resolved(<<>>), <<cal>>)
  /\ UNCHANGED <<localCalendars, apiCalendars, calendar, token, inflight,
                 ident, route>>

\* state.calendar.sections can be read
Editable == calendar # <<>> /\ "sections" \in DOMAIN calendar[1]

\* dispatch("updateCalendar", calendar) without the save
dispatchUpdateCalendarNoSave(act, first, section, local, api, refs) ==
  LET cal == calendar'[1]
      index == FindIndex(local, LAMBDA c : StrictEqField(c, cal, "uid"))
  IN /\ apiCalendars' = api
     /\ IF ~Truthy(cal, "fromApi")
          THEN /\ localCalendars' = updateLocalCalendar(local, cal)
               /\ Len(localCalendars') <= MaxLen
               /\ Refer(Splice(refs.local, index, refs.sel[1]), refs.api,
                        refs.sel)
               /\ DidNote(act, "", <<first, "commit updateLocalCalendar">>,
                          <<>>, Resolved(<<>>), <<>>)
               /\ UNCHANGED <<inflight, storage>>
          ELSE /\ localCalendars' = local
               /\ Refer(refs.local, refs.api, refs.sel)
               /\ CanSuspend("updateCalendar")
               /\ Suspend("updateCalendar",
                          [pc |-> "PUT", cal |-> cal, net |-> <<"PUT">>])
               /\ DidNote(act, "", <<first, "PUT">>, <<"PUT">>,
                          Resolved(<<>>), <<>>)
               /\ UNCHANGED storage
     /\ UNCHANGED <<token, uuidCount, route>>

\* dispatch("updateCalendar", calendar) as addSection and removeSection end
\* with it, the selection being calendar' already: a calendar that is not
\* fromApi replaces a local entry and the list is saved, a fromApi calendar
\* is PUT, and the action does not wait for the requests.  local, api and
\* refs are the lists and the references as the write through the
\* selection left them.
dispatchUpdateCalendar(act, first, section, local, api, refs) ==
  LET cal == calendar'[1]
      index == FindIndex(local, LAMBDA c : StrictEqField(c, cal, "uid"))
  IN /\ apiCalendars' = api
     /\ IF ~Truthy(cal, "fromApi")
          THEN /\ localCalendars' = updateLocalCalendar(local, cal)
               /\ Len(localCalendars') <= MaxLen
               /\ Refer(Splice(refs.local, index, refs.sel[1]), refs.api,
                        refs.sel)
               /\ storage' = Stringify(localCalendars')
               /\ DidNote(act, "",
                          <<first, "commit updateLocalCalendar", "setItem">>,
                          <<>>, Resolved(<<>>), <<>>)
               /\ UNCHANGED inflight
          ELSE /\ localCalendars' = local
               /\ Refer(refs.local, refs.api, refs.sel)
               /\ CanSuspend("updateCalendar")
               /\ Suspend("updateCalendar",
                          [pc |-> "PUT", cal |-> cal, net |-> <<"PUT">>])
               /\ DidNote(act, "", <<first, "PUT">>, <<"PUT">>,
                          Resolved(<<>>), <<>>)
               /\ UNCHANGED storage
     /\ UNCHANGED <<token, uuidCount, route>>

\* commit("addSection", section) pushes onto the selection's sections array,
\* and so onto the array of every place that holds it
addSection(section) ==
  LET Push(c, r) ==
        IF r.a = ident.sel[1].a
          THEN [c EXCEPT !.sections = Append(@, section)] ELSE c
      Pushed(cals, refs) == [i \in 1..Len(cals) |-> Push(cals[i], refs[i])]
  IN /\ Editable
     /\ Len(calendar[1].sections) < MaxSections
     /\ calendar' = <<Push(calendar[1], ident.sel[1])>>
     /\ dispatchUpdateCalendar("addSection", "commit addSection", section,
                               Pushed(localCalendars, ident.local),
                               Pushed(apiCalendars, ident.api), ident)

\* without a selection, or with one that has no sections, the mutation
\* throws
addSectionThrows(section) ==
  /\ ~Editable
  /\ DidNote("addSection", "", <<"commit addSection">>, <<>>,
             Rejected("TypeError"), <<>>)
  /\ UNCHANGED <<localCalendars, apiCalendars, calendar, storage, token,
                 uuidCount, inflight, ident, route>>

\* calendar.sections = calendar.sections.filter(...): the selected object is
\* given a new array in the action itself, and every place that holds the
\* object shows it
removeSection(section) ==
  LET filtered == SelectSeq(calendar[1].sections,
                            LAMBDA x : x.code # section.code)
      Assign(c, r) ==
        IF r.o = ident.sel[1].o THEN [c EXCEPT !.sections = filtered] ELSE c
      Assigned(cals, refs) == [i \in 1..Len(cals) |-> Assign(cals[i], refs[i])]
      Renew(r) == IF r.o = ident.sel[1].o THEN [r EXCEPT !.a = 0] ELSE r
  IN /\ Editable
     /\ calendar' = <<Assign(calendar[1], ident.sel[1])>>
     /\ dispatchUpdateCalendar("removeSection", "assign calendar.sections",
                               section,
                               Assigned(localCalendars, ident.local),
                               Assigned(apiCalendars, ident.api),
                               [local |-> Map(ident.local, Renew),
                                api |-> Map(ident.api, Renew),
                                sel |-> Map(ident.sel, Renew)])

removeSectionThrows(section) ==
  /\ ~Editable
  /\ DidNote("removeSection", "", <<>>, <<>>, Rejected("TypeError"), <<>>)
  /\ UNCHANGED <<localCalendars, apiCalendars, calendar, storage, token,
                 uuidCount, inflight, ident, route>>

\* ------------------------------------------------------------ the router
\* A route's path is the sequence of its segments; "/" has none.
Static(s) == [kind |-> "static", value |-> s]
Param(n) == [kind |-> "param", value |-> n]
\* :pathMatch(.*)*
CatchAll(n) == [kind |-> "catchAll", value |-> n]

\* the table with the guard of the last auth route left out
routesRecoveryUnguarded ==
  <<[path |-> <<>>, name |-> "home", component |-> "HomeView",
     beforeEnter |-> <<>>],
    [path |-> <<Static("f")>>, name |-> "files.index",
     component |-> "FilesIndex", beforeEnter |-> <<>>],
    [path |-> <<Static("c")>>, name |-> "calendars.index",
     component |-> "CalendarIndex", beforeEnter |-> <<>>],
    [path |-> <<Static("c"), Param("uuid")>>, name |-> "calendars.show",
     component |-> "CalendarShow", beforeEnter |-> <<>>],
    [path |-> <<Static("c"), Param("uuid"), Static("edit")>>,
     name |-> "calendars.edit", component |-> "CalendarEdit",
     beforeEnter |-> <<>>],
    [path |-> <<Static("login")>>, name |-> "login", component |-> "Login",
     beforeEnter |-> <<"onlyGuests">>],
    [path |-> <<Static("registration")>>, name |-> "registration",
     component |-> "Registration", beforeEnter |-> <<"onlyGuests">>],
    [path |-> <<Static("password-recovery")>>, name |-> "password-recovery",
     component |-> "PasswordRecoveryView", beforeEnter |-> <<>>],
    [path |-> <<CatchAll("pathMatch")>>, name |-> "not-found",
     component |-> "NotFound", beforeEnter |-> <<>>]>>

routes ==
  <<[path |-> <<>>, name |-> "home", component |-> "HomeView",
     beforeEnter |-> <<>>],
    [path |-> <<Static("f")>>, name |-> "files.index",
     component |-> "FilesIndex", beforeEnter |-> <<>>],
    [path |-> <<Static("c")>>, name |-> "calendars.index",
     component |-> "CalendarIndex", beforeEnter |-> <<>>],
    [path |-> <<Static("c"), Param("uuid")>>, name |-> "calendars.show",
     component |-> "CalendarShow", beforeEnter |-> <<>>],
    [path |-> <<Static("c"), Param("uuid"), Static("edit")>>,
     name |-> "calendars.edit", component |-> "CalendarEdit",
     beforeEnter |-> <<>>],
    [path |-> <<Static("login")>>, name |-> "login", component |-> "Login",
     beforeEnter |-> <<"onlyGuests">>],
    [path |-> <<Static("registration")>>, name |-> "registration",
     component |-> "Registration", beforeEnter |-> <<"onlyGuests">>],
    [path |-> <<Static("password-recovery")>>, name |-> "password-recovery",
     component |-> "PasswordRecoveryView", beforeEnter |-> <<"onlyGuests">>],
    [path |-> <<CatchAll("pathMatch")>>, name |-> "not-found",
     component |-> "NotFound", beforeEnter |-> <<>>]>>

\* what a request path is made of: the segments the table names, one it
\* does not, and two of them in capitals
Segments == {"f", "c", "edit", "login", "registration", "password-recovery",
             "x", "LOGIN", "C"}
Lower(seg) == CASE seg = "LOGIN" -> "login" [] seg = "C" -> "c" [] OTHER -> seg

RECURSIVE SeqsUpTo(_, _)
SeqsUpTo(S, n) ==
  IF n = 0 THEN {<<>>}
  ELSE LET shorter == SeqsUpTo(S, n - 1)
       IN shorter \cup {Append(q, x) : q \in shorter, x \in S}

\* a request path: its segments, and whether a slash follows the last
Paths ==
  {[segs |-> q, slash |-> b] :
     q \in SeqsUpTo(Segments, MaxSegs), b \in BOOLEAN} \
  {[segs |-> <<>>, slash |-> TRUE]}

\* createRouter is given neither sensitive nor strict: a static segment is
\* compared without regard to case, a parameter takes any one segment, and
\* a slash after the last segment is accepted
SegmentMatches(pat, seg) ==
  CASE pat.kind = "static" -> Lower(pat.value) = Lower(seg)
    [] pat.kind = "param" -> TRUE
    [] pat.kind = "catchAll" -> TRUE

Matches(r, path) ==
  IF \E i \in 1..Len(r.path) : r.path[i].kind = "catchAll"
    THEN TRUE
    ELSE /\ Len(r.path) = Len(path.segs)
         /\ \A i \in 1..Len(r.path) : SegmentMatches(r.path[i], path.segs[i])

\* the rank of a route record: one score for each segment
SegmentScore(pat) ==
  CASE pat.kind = "static" -> 40 + 40
    [] pat.kind = "param" -> 40 + 20
    [] pat.kind = "catchAll" -> 40 + 20 + 10 - 8 - 20 - 50

Score(r) == IF r.path = <<>> THEN <<90>> ELSE Map(r.path, SegmentScore)

\* negative when a is tried before b, positive when after, 0 when the
\* order of the table decides
CompareScore(a, b) ==
  LET differ == {i \in 1..Min(Len(a), Len(b)) : a[i] # b[i]}
      first == CHOOSE i \in differ : \A j \in differ : i <= j
  IN IF differ # {} THEN b[first] - a[first]
     ELSE IF Len(b) - Len(a) \in {1, 0 - 1} /\ a[Len(a)] < 0 THEN 1
     ELSE IF Len(b) - Len(a) \in {1, 0 - 1} /\ b[Len(b)] < 0 THEN 0 - 1
     ELSE Len(b) - Len(a)

TriedBefore(i, j) ==
  LET c == CompareScore(Score(routes[i]), Score(routes[j]))
  IN c < 0 \/ (c = 0 /\ i < j)

\* router.resolve: the first record, in the order of trial, that matches
Resolve(path) ==
  LET matching == {i \in 1..Len(routes) : Matches(routes[i], path)}
  IN routes[CHOOSE i \in matching :
              \A j \in matching : j = i \/ TriedBefore(i, j)]

\* a navigation to path: the record is resolved, its beforeEnter guards are
\* evaluated, and the route is entered when they let it (enters; what
\* onlyGuests decides is not in the table)
navigate(path, enters) ==
  LET r == Resolve(path)
  IN /\ r.beforeEnter = <<>> => enters
     /\ route' = IF enters
                   THEN <<[path |-> path, name |-> r.name,
                           component |-> r.component]>>
                   ELSE route
     /\ DidNote("navigate", r.name, r.beforeEnter, <<>>,
                IF enters THEN Resolved(<<r.component>>)
                ELSE Rejected("onlyGuests"),
                <<path>>)
     /\ UNCHANGED <<localCalendars, apiCalendars, calendar, storage, token,
                    uuidCount, inflight, ident>>

\* ------------------------------------------------------ specifications
KnownUuids == {c.uuid : c \in {k \in Known : "uuid" \in DOMAIN k}}

Environment == login \/ logout

LocalActions ==
  \/ addUuidToCalendars
  \/ getLocalCalendars
  \/ saveLocalCalendars
  \/ \E calendars \in LegacyLists : setLocalCalendars(calendars)
  \/ \E sharedCalendar \in SharedCalendars : saveSharedCalendar(sharedCalendar)
  \/ \E cal \in NewCalendars : createCalendarLocal(cal)
  \/ \E cal \in Known : updateCalendarLocal(cal)

DeleteActions ==
  \/ \E cal \in Known : deleteCalendar(cal)
  \/ deleteCalendarOk
  \/ deleteCalendarFail

DuplicateActions ==
  \/ \E uuid \in ServerUuids : saveAndDuplicateSharedCalendar(uuid)
  \/ saveAndDuplicateFetchFail
  \/ \E data \in SharedCalendars : saveAndDuplicateFetchOk(data)
  \/ saveAndDuplicatePushOk
  \/ saveAndDuplicatePushFail

ApiListActions ==
  \/ getApiCalendars
  \/ \E data \in ServerLists : getApiCalendarsOk(data)
  \/ getApiCalendarsFail
  \/ \E uuid \in ServerUuids : togglePrivacyNotFound(uuid)
  \/ \E uuid \in ServerUuids : togglePrivacy(uuid)
  \/ \E data \in ServerCalendars : togglePrivacyOk(data)
  \/ togglePrivacyFail
  \/ saveSharedCalendarToAPINoToken
  \/ saveSharedCalendarToAPI
  \/ \E data \in ServerCalendars : saveSharedCalendarToAPIOk(data)
  \/ saveSharedCalendarToAPIFail

RemoteActions ==
  \/ \E cal \in NewCalendars : createCalendar(cal)
  \/ \E data \in ServerCalendars : createCalendarOk(data)
  \/ createCalendarFail
  \/ \E cal \in Known : updateCalendar(cal)
  \/ \E data \in ServerCalendars : updateCalendarPutOk(data)
  \/ updateCalendarPutFail
  \/ updateCalendarPostOk
  \/ updateCalendarPostFail

SelectActions ==
  \/ \E uuid \in KnownUuids : getLocalCalendarByUuid(uuid)
  \/ \E uuid \in ServerUuids : getApiCalendarByUuid(uuid)
  \/ \E data \in ServerCalendars : getApiCalendarByUuidOk(data)
  \/ getApiCalendarByUuidFail

\* the navigation the router starts with, to the path the page was loaded
\* at; the table and the store navigate nowhere by themselves
RouterActions ==
  /\ route = <<>>
  /\ last.act # "navigate"
  /\ \E path \in Paths : \E enters \in BOOLEAN : navigate(path, enters)

EditorActions ==
  \/ \E cal \in NewCalendars : addCalendar(cal)
  \/ \E section \in Sections : addSection(section)
  \/ \E section \in Sections : addSectionThrows(section)
  \/ \E section \in Sections : removeSection(section)
  \/ \E section \in Sections : removeSectionThrows(section)

\* the responses to the requests of updateCalendar
UpdateResponses ==
  \/ \E data \in ServerCalendars : updateCalendarPutOk(data)
  \/ updateCalendarPutFail
  \/ updateCalendarPostOk
  \/ updateCalendarPostFail

Next ==
  \/ Environment
  \/ RouterActions
  \/ EditorActions
  \/ LocalActions
  \/ DeleteActions
  \/ DuplicateActions
  \/ ApiListActions
  \/ RemoteActions
  \/ SelectActions

Spec == Init /\ [][Next]_vars

\* the store with the actions that write localCalendars and local storage
NextLocal == Environment \/ LocalActions \/ DeleteActions \/ DuplicateActions
SpecLocal == Init /\ [][NextLocal]_vars

\* the store with the actions that write apiCalendars
NextApi ==
  \/ Environment
  \/ ApiListActions
  \/ \E calendars \in LegacyLists : setLocalCalendars(calendars)
SpecApi == Init /\ [][NextApi]_vars

\* the store with the actions whose requests write neither list
NextRemote ==
  \/ Environment
  \/ RemoteActions
  \/ SelectActions
  \/ \E cal \in NewCalendars : createCalendarLocal(cal)
  \/ \E cal \in Known : updateCalendarLocal(cal)
SpecRemote == Init /\ [][NextRemote]_vars

\* the store with the editor: the actions that write localCalendars, the
\* selection, and the sections of the selected calendar
NextEditor ==
  \/ addUuidToCalendars
  \/ \E calendars \in LegacyLists : setLocalCalendars(calendars)
  \/ \E sharedCalendar \in SharedCalendars : saveSharedCalendar(sharedCalendar)
  \/ \E cal \in NewCalendars : createCalendarLocal(cal)
  \/ \E cal \in Known : updateCalendarLocal(cal)
  \/ DeleteActions
  \/ \E uuid \in KnownUuids : getLocalCalendarByUuid(uuid)
  \/ EditorActions
SpecEditor == Init /\ [][NextEditor]_vars

\* the router alone
SpecRouter == Init /\ [][RouterActions]_vars

\* ---------------------------------------------------------------- claims
SameUuid(a, b) == "uuid" \in DOMAIN a /\ "uuid" \in DOMAIN b /\ a.uuid = b.uuid
UuidsOf(cals) == {cals[i].uuid : i \in {j \in 1..Len(cals) : "uuid" \in DOMAIN cals[j]}}
UuidsInUse ==
  UuidsOf(localCalendars) \cup UuidsOf(apiCalendars) \cup UuidsOf(calendar)
  \cup UuidsOf(ParseStored(storage))

\* the steps C1 is about, as it reads them
C1_Step ==
  /\ \A cal \in Known :
       deleteCalendar(cal) =>
         /\ \A i \in 1..Len(localCalendars') :
              ~StrictEqField(localCalendars'[i], cal, "uuid")
         /\ Len(localCalendars') =
              Len(localCalendars)
              - Cardinality({i \in 1..Len(localCalendars) :
                               StrictEqField(localCalendars[i], cal, "uuid")})
         /\ ParseStored(storage') = localCalendars'
         /\ last'.effects = <<"commit removeLocalCalendar", "setItem", "DELETE">>
  /\ (deleteCalendarOk \/ deleteCalendarFail) =>
       /\ localCalendars' = localCalendars
       /\ storage' = storage
       /\ last'.ret.status = "resolved"

\* C1: deleteCalendar(calendar) removes every entry with calendar.uuid from
\* localCalendars, and only those, and writes the reduced list to local
\* storage before it issues the DELETE; the response, a success or a
\* failure, changes neither the list nor storage, and the action resolves.
C1_DeleteIsLocalFirst == [][C1_Step]_vars

\* a DELETE has failed for a calendar that was in the local list (in
\* SpecLocal only local entries carry no fromApi), the list and storage hold
\* no entry with its uuid, and another entry is still there
C1_Witness ==
  /\ last.act = "deleteCalendar:response"
  /\ last.out = "fail"
  /\ "uuid" \in DOMAIN last.note[1]
  /\ ~Truthy(last.note[1], "fromApi")
  /\ last.note[1].uuid \notin UuidsOf(localCalendars)
  /\ last.note[1].uuid \notin UuidsOf(ParseStored(storage))
  /\ Len(localCalendars) >= 1

\* the steps C2 is about, as it reads them
C2_Step ==
  \A cal \in Known :
    (/\ updateCalendarLocal(cal)
     /\ \E i \in 1..Len(localCalendars) : SameUuid(localCalendars[i], cal)) =>
      /\ Len(localCalendars') = Len(localCalendars)
      /\ \A i \in 1..Len(localCalendars) :
           localCalendars'[i] =
             IF SameUuid(localCalendars[i], cal) THEN cal ELSE localCalendars[i]

\* C2: updateCalendar(calendar), calendar not fromApi and its uuid in the
\* local list, replaces exactly the entries with that uuid by the calendar:
\* the length is unchanged and every other entry is unchanged.
C2_UpdateReplacesByUuid == [][C2_Step]_vars

\* C3: createCalendar(calendar) without a token issues no request and
\* returns the input calendar plus the generated uuid.
C3_CreateReturnsWithUuid ==
  (last.act = "createCalendar" /\ last.ret.status = "resolved") =>
    /\ last.net = <<>>
    /\ "uuid" \in DOMAIN last.ret.val[1]
    /\ last.ret.val[1] = Spread(last.note[1], [uuid |-> uuidv4(uuidCount)])

\* the steps C4 is about, as it reads them
C4_Step ==
  \A cal \in NewCalendars :
    createCalendarLocal(cal) =>
      LET n == Len(localCalendars)
          new == localCalendars'[n + 1]
      IN /\ Len(localCalendars') = n + 1
         /\ SubSeq(localCalendars', 1, n) = localCalendars
         /\ DOMAIN new = (DOMAIN cal) \cup {"uuid"}
         /\ \A f \in DOMAIN cal : new[f] = cal[f]
         /\ new.uuid \notin UuidsInUse
         /\ storage' = Stringify(localCalendars')
         /\ ParseStored(storage') = localCalendars'

C5_UuidUnique ==
  /\ \A i, j \in 1..Len(localCalendars) :
       i # j => ~SameUuid(localCalendars[i], localCalendars[j])
  /\ \A i, j \in 1..Len(apiCalendars) :
       i # j => ~SameUuid(apiCalendars[i], apiCalendars[j])

\* the steps C6 is about, as it reads them
C6_Step ==
  \A sharedCalendar \in SharedCalendars :
    saveSharedCalendar(sharedCalendar) =>
      LET new == localCalendars'[Len(localCalendars')]
      IN /\ new.uuid = uuidv4(uuidCount')
         /\ new.uuid # sharedCalendar.uuid

\* C6: the calendar saveSharedCalendar(sharedCalendar) appends is identified
\* by the uuid generated for it, never by the uuid the shared calendar has.
C6_SharedCopyHasNewUuid == [][C6_Step]_vars

\* C7, as claimed: updateCalendar(calendar) issues no request when the
\* calendar is not fromApi, and for a fromApi calendar it ends having issued
\* the PUT and then the POST of the sections, however the requests end.
C7_UpdateAlwaysPutThenPost ==
  /\ (last.act = "updateCalendar" /\ last.ret.status = "resolved") =>
       last.net = <<>>
  /\ (/\ last.act \in {"updateCalendar:put", "updateCalendar:post"}
      /\ last.ret.status # "pending") =>
       last.net = <<"PUT", "POST sections">>

\* C7, amended: updateCalendar(calendar) issues no request when the calendar
\* is not fromApi; for a fromApi calendar it issues one PUT, and one POST of
\* the sections after it exactly when the PUT succeeded and the calendar has
\* sections; a failed PUT ends the action with the PUT alone.
C7_UpdatePutThenPostIfPutOk ==
  /\ (last.act = "updateCalendar" /\ last.ret.status = "resolved") =>
       last.net = <<>>
  /\ (last.act = "updateCalendar" /\ last.ret.status = "pending") =>
       last.net = <<"PUT">>
  /\ (last.act = "updateCalendar:put" /\ last.out = "fail") =>
       last.net = <<"PUT">> /\ last.ret.status = "resolved"
  /\ (last.act = "updateCalendar:put" /\ last.out = "ok") =>
       IF "sections" \in DOMAIN last.note[1]
         THEN last.net = <<"PUT", "POST sections">>
              /\ last.ret.status = "pending"
         ELSE last.net = <<"PUT">> /\ last.ret.status = "resolved"
  /\ last.act = "updateCalendar:post" =>
       last.net = <<"PUT", "POST sections">> /\ last.ret.status = "resolved"

\* the PUT of a fromApi calendar failed and the action ended without a POST
C7_Witness ==
  /\ last.act = "updateCalendar:put"
  /\ last.out = "fail"
  /\ Truthy(last.note[1], "fromApi")
  /\ last.net = <<"PUT">>
  /\ inflight["updateCalendar"].pc = "idle"

\* the steps C8 is about, as it reads them
C8_Step ==
  (togglePrivacyFail \/ createCalendarFail) =>
    /\ last'.ret.status = "rejected"
    /\ UNCHANGED <<localCalendars, apiCalendars, calendar>>

\* C8: a failed request of togglePrivacy, or of createCalendar with a token,
\* rejects the action and leaves localCalendars, apiCalendars and the
\* selection as they were.
C8_FailurePropagates == [][C8_Step]_vars

\* the steps C9 is about, as it reads them
C9_Step ==
  /\ \A data \in SharedCalendars :
       saveAndDuplicateFetchOk(data) =>
         LET n == Len(localCalendars)
         IN /\ Len(localCalendars') = n + 1
            /\ SubSeq(localCalendars', 1, n) = localCalendars
            /\ ParseStored(storage') = localCalendars'
            /\ last'.note = <<<<localCalendars'[n + 1]>>>>
  /\ (saveAndDuplicatePushOk \/ saveAndDuplicatePushFail) =>
       /\ localCalendars' = localCalendars
       /\ last'.effects[Len(last'.effects)] = "alert success"
  /\ saveAndDuplicateFetchFail =>
       /\ localCalendars' = localCalendars
       /\ last'.effects = <<"alert error">>

\* C9: when its fetch succeeds, saveAndDuplicateSharedCalendar(uuid) adds one
\* calendar to the local list and persists it, hands that calendar to the
\* push, and ends with the success notification however the push ends; when
\* the fetch fails it adds nothing and ends with the failure notification.
C9_DuplicateAddsOne == [][C9_Step]_vars

\* C10: every entry of apiCalendars is tagged fromApi: true.
C10_ApiEntriesTagged ==
  \A i \in 1..Len(apiCalendars) : Truthy(apiCalendars[i], "fromApi")

\* the steps C11 is about, as it reads them
C11_Step ==
  \A uuid \in ServerUuids :
    (/\ togglePrivacy(uuid) \/ togglePrivacyNotFound(uuid)
     /\ uuid \notin UuidsOf(apiCalendars)) =>
      /\ last'.ret = Rejected("Calendar not found")
      /\ last'.net = <<>>
      /\ last'.effects = <<>>
      /\ UNCHANGED <<apiCalendars, localCalendars, calendar, inflight>>

\* C11: togglePrivacy(uuid) for a uuid no entry of apiCalendars has rejects
\* with "Calendar not found", issues no request and leaves apiCalendars,
\* localCalendars and the selection as they were.
C11_ToggleUnknownRejects == [][C11_Step]_vars

\* togglePrivacy was rejected while the API list held other calendars
C11_Witness ==
  /\ last.act = "togglePrivacy"
  /\ last.ret = Rejected("Calendar not found")
  /\ token
  /\ Len(apiCalendars) >= 1

FirstWithUuid(cals, uuid) ==
  CHOOSE i \in 1..Len(cals) :
    HasUuid(cals[i], uuid) /\ \A j \in 1..(i - 1) : ~HasUuid(cals[j], uuid)

\* the steps C12 is about, as it reads them
C12_Step ==
  /\ \A uuid \in ServerUuids :
       (togglePrivacy(uuid) /\ uuid \in UuidsOf(apiCalendars)) =>
         LET listed == apiCalendars[FirstWithUuid(apiCalendars, uuid)]
         IN /\ last'.net = <<"PATCH">>
            /\ inflight'["togglePrivacy"].uuid = uuid
            /\ inflight'["togglePrivacy"].is_public = ~Truthy(listed, "is_public")
  /\ \A data \in ServerCalendars :
       (togglePrivacyOk(data) /\ last.act = "togglePrivacy"
        /\ last.ret = Pending) =>
         LET i == FirstWithUuid(apiCalendars, data.uuid)
         IN /\ Len(apiCalendars') = Len(apiCalendars)
            /\ apiCalendars'[i] = Spread(data, [fromApi |-> TRUE])
            /\ \A j \in 1..Len(apiCalendars) :
                 j # i => apiCalendars'[j] = apiCalendars[j]
            /\ calendar' = <<apiCalendars'[i]>>
            /\ last'.ret = Resolved(<<apiCalendars'[i]>>)

\* C12: togglePrivacy(uuid) for a uuid in apiCalendars sends a PATCH whose
\* is_public is the negation of the listed calendar's; when the PATCH
\* succeeds with no step in between, the entry with the uuid becomes the
\* server's response tagged fromApi: true, the selection is that same
\* calendar, and the other entries and the length are unchanged.
C12_ToggleTakesServerAnswer == [][C12_Step]_vars

\* a PATCH succeeded for the second of two listed calendars, which is now
\* the selection, and the server answered with the flag the list already had
C12_Witness ==
  /\ last.act = "togglePrivacy:response"
  /\ last.out = "ok"
  /\ Len(apiCalendars) = 2
  /\ apiCalendars[1].uuid # apiCalendars[2].uuid
  /\ calendar = <<apiCalendars[2]>>
  /\ Truthy(apiCalendars[2], "fromApi")
  /\ inflight["togglePrivacy"].pc = "idle"

\* the steps C20 is about, as it reads them
C20_Step ==
  \A data \in ServerCalendars :
    togglePrivacyOk(data) =>
      /\ Len(apiCalendars') = Len(apiCalendars)
      /\ \A i \in 1..Len(apiCalendars) :
           ~HasUuid(apiCalendars[i], data.uuid) =>
             apiCalendars'[i] = apiCalendars[i]

\* C20: whatever steps replaced or extended apiCalendars while the PATCH of
\* togglePrivacy(uuid) was in flight, its completion changes no entry whose
\* uuid is not uuid and leaves the number of entries as it was.
C20_ToggleCompletionKeepsOthers == [][C20_Step]_vars

\* the steps C16 is about, as it reads them
C16_Step ==
  /\ (/\ saveSharedCalendarToAPINoToken \/ saveSharedCalendarToAPI
      /\ ~token) =>
       /\ last'.ret.status = "rejected"
       /\ last'.net = <<>>
       /\ UNCHANGED <<localCalendars, apiCalendars, calendar, storage,
                      inflight>>
  /\ saveSharedCalendarToAPIFail =>
       /\ last'.ret.status = "rejected"
       /\ apiCalendars' = apiCalendars
  /\ \A data \in ServerCalendars :
       saveSharedCalendarToAPIOk(data) =>
         LET n == Len(apiCalendars)
         IN /\ last'.ret = Resolved(<<data>>)
            /\ Len(apiCalendars') = n + 1
            /\ \A i \in 1..n : apiCalendars'[i] = apiCalendars[i]
            /\ apiCalendars'[n + 1] = data

\* C16: saveSharedCalendarToAPI(calendar) without a token throws, issues no
\* request and changes no state; with a token and a failed POST it rethrows
\* and apiCalendars is unchanged; with a token and a successful POST it
\* returns the response and apiCalendars is its value at the commit with the
\* response appended, so an entry another action added meanwhile is kept.
C16_SaveToApiAppendsToCurrent == [][C16_Step]_vars

\* the POST succeeded and its response sits behind an entry of the list
C16_Witness ==
  /\ last.act = "saveSharedCalendarToAPI:response"
  /\ last.out = "ok"
  /\ Len(apiCalendars) = 2
  /\ <<apiCalendars[2]>> = last.ret.val
  /\ Truthy(apiCalendars[1], "fromApi")

\* the steps C14 is about, as it reads them
C14_Step ==
  addUuidToCalendars =>
    /\ Len(localCalendars') = Len(localCalendars)
    /\ \A i \in 1..Len(localCalendars) :
         IF "uuid" \in DOMAIN localCalendars[i]
           THEN localCalendars'[i] = localCalendars[i]
           ELSE /\ "uuid" \in DOMAIN localCalendars'[i]
                /\ localCalendars'[i] =
                     Spread(localCalendars[i],
                            [uuid |-> localCalendars'[i].uuid])
    /\ WithUuids(localCalendars', uuidCount') = localCalendars'
    /\ last.act = "addUuidToCalendars" => localCalendars' = localCalendars

\* C14: addUuidToCalendars keeps every calendar that has a uuid as it is and
\* gives the others one; applying it to its own result, and so applying it
\* twice, yields the list and the uuids of applying it once.
C14_AddUuidIdempotent == [][C14_Step]_vars

\* addUuidToCalendars ran on a list it had nothing to add to, a migrated
\* calendar among its entries, and left the list as it was
C14_Witness ==
  /\ last.act = "addUuidToCalendars"
  /\ last.note = <<localCalendars>>
  /\ Len(localCalendars) >= 1
  /\ \E i \in 1..Len(localCalendars) :
       /\ HasUuid(localCalendars[i], uuidv4(1))
       /\ DOMAIN localCalendars[i] = {"uuid", "name"}

\* C15, as claimed: addUuidToCalendars replaces the local list and leaves
\* the value under the storage key as it was.
C15_AddUuidLeavesStorage == [][addUuidToCalendars => storage' = storage]_vars

\* the steps the amended C15 is about
C15_Step ==
  addUuidToCalendars =>
    /\ localCalendars' = WithUuids(localCalendars, uuidCount)
    /\ storage' = Stringify(localCalendars')
    /\ ParseStored(storage') = localCalendars'
    /\ last'.effects = <<"commit setLocalCalendars", "setItem">>

\* C15, amended: addUuidToCalendars replaces the local list through
\* setLocalCalendars, which persists it: the value under the storage key
\* becomes the JSON of the migrated list.
C15_AddUuidPersists == [][C15_Step]_vars

\* addUuidToCalendars gave a stored calendar its uuid and the storage key
\* holds the migrated list
C15_Witness ==
  /\ last.act = "addUuidToCalendars"
  /\ last.note # <<localCalendars>>
  /\ \E i \in 1..Len(last.note[1]) : "uuid" \notin DOMAIN last.note[1][i]
  /\ storage = Stringify(localCalendars)
  /\ storage # Stringify(last.note[1])

\* the steps C13 is about, as it reads them
C13_Step ==
  /\ (\/ saveLocalCalendars
      \/ \E calendars \in LegacyLists : setLocalCalendars(calendars)) =>
       ParseStored(storage') = localCalendars'
  /\ getLocalCalendars =>
       /\ storage' = storage
       /\ storage = <<>> => localCalendars' = <<>>
       /\ last.act \in {"saveLocalCalendars", "setLocalCalendars"} =>
            localCalendars' = localCalendars

\* C13: what saveLocalCalendars or setLocalCalendars(L) leaves under the
\* storage key parses back to the local list L, so getLocalCalendars right
\* after either yields L again; with no value under the key
\* getLocalCalendars yields the empty list.
C13_StorageRoundTrip == [][C13_Step]_vars

\* getLocalCalendars read back a stored list of two calendars, one of them
\* with flags and sections
C13_Witness ==
  /\ last.act = "getLocalCalendars"
  /\ Len(localCalendars) = 2
  /\ \E i \in 1..2 : {"is_public", "sections"} \subseteq DOMAIN localCalendars[i]
  /\ storage = Stringify(localCalendars)

\* the route a request path names when the declared paths are read as the
\* router reads them: which of them the segments spell, a slash after the
\* last segment and the case of the letters being left aside
DeclaredRoute(segs) ==
  LET low == Map(segs, Lower)
  IN CASE low = <<>> -> "home"
       [] low = <<"f">> -> "files.index"
       [] low = <<"c">> -> "calendars.index"
       [] Len(low) = 2 /\ low[1] = "c" -> "calendars.show"
       [] Len(low) = 3 /\ low[1] = "c" /\ low[3] = "edit" -> "calendars.edit"
       [] low = <<"login">> -> "login"
       [] low = <<"registration">> -> "registration"
       [] low = <<"password-recovery">> -> "password-recovery"
       [] OTHER -> "not-found"

\* the path is one of the declared paths as they are written
WrittenAsDeclared(path) ==
  ~path.slash /\ \A i \in 1..Len(path.segs) :
                   i # 2 => Lower(path.segs[i]) = path.segs[i]

GuestOnly == {"login", "registration", "password-recovery"}

\* C17, as claimed: a declared path resolves to its own view, every other
\* path resolves to the not-found view, and the guest-only guard is
\* evaluated before entering login, registration and password-recovery and
\* before no other route.
C17_RoutesExactPaths ==
  last.act = "navigate" =>
    /\ last.out = IF WrittenAsDeclared(last.note[1])
                    THEN DeclaredRoute(last.note[1].segs) ELSE "not-found"
    /\ last.effects = IF last.out \in GuestOnly THEN <<"onlyGuests">> ELSE <<>>

\* C17, amended: every request path resolves to exactly one route; a path
\* that spells a declared path, whatever the case of its letters and with
\* or without a slash after its last segment, resolves to that path's view
\* and never to not-found, every other path resolves to not-found, and the
\* guest-only guard is evaluated before entering login, registration and
\* password-recovery and before no other route.
C17_RoutesResolve ==
  last.act = "navigate" =>
       /\ Cardinality({i \in 1..Len(routes) :
                         routes[i] = Resolve(last.note[1])}) = 1
       /\ last.out = DeclaredRoute(last.note[1].segs)
       /\ last.effects =
            IF last.out \in GuestOnly THEN <<"onlyGuests">> ELSE <<>>
       /\ last.ret.status = "resolved" =>
            route = <<[path |-> last.note[1], name |-> last.out,
                      component |-> Resolve(last.note[1]).component]>>

\* /password-recovery/ was requested, the guard was evaluated and the
\* recovery view entered
C17_Witness ==
  /\ last.act = "navigate"
  /\ last.note[1] = [segs |-> <<"password-recovery">>, slash |-> TRUE]
  /\ last.effects = <<"onlyGuests">>
  /\ route # <<>>
  /\ route[1].component = "PasswordRecoveryView"

\* the mutations the store declares, as the effect their commit leaves
DeclaredCommits ==
  {"commit " \o m :
     m \in {"setLocalCalendars", "setApiCalendars", "setCalendar",
            "addLocalCalendar", "removeLocalCalendar", "updateLocalCalendar",
            "updateApiCalendar", "addSection"}}

\* the effects of a step that write nothing to the store state
NoWrite ==
  {"getItem", "setItem", "GET", "PUT", "POST", "POST sections", "PATCH",
   "DELETE", "console.log", "console.error", "alert success", "alert error",
   "onlyGuests"}

\* the steps C18 is about, as it reads them
C18_Step ==
  LET Committed(ms) ==
        \E i \in 1..Len(last'.effects) :
          \E m \in ms : last'.effects[i] = "commit " \o m
  IN /\ \A i \in 1..Len(last'.effects) :
          last'.effects[i] \notin NoWrite => last'.effects[i] \in DeclaredCommits
     /\ localCalendars' # localCalendars =>
          Committed({"setLocalCalendars", "addLocalCalendar",
                     "removeLocalCalendar", "updateLocalCalendar",
                     "addSection"})
     /\ apiCalendars' # apiCalendars =>
          Committed({"setApiCalendars", "updateApiCalendar", "addSection"})
     /\ calendar' # calendar => Committed({"setCalendar", "addSection"})

\* C18: every write of an action to localCalendars, apiCalendars or the
\* selected calendar, its sections included, is the commit of one of the
\* eight declared mutations, and no action commits a mutation that is not
\* declared.
C18_OnlyDeclaredMutations == [][C18_Step]_vars

\* C19: when setLocalCalendars, addUuidToCalendars, saveSharedCalendar,
\* createCalendar without a token, deleteCalendar, updateCalendar of a
\* calendar that is not fromApi, or addSection or removeSection on a
\* selected calendar that is not fromApi has run, whatever ran before it,
\* the value under the storage key is the JSON of localCalendars.
C19_StorageFollowsList ==
  (\/ last.act \in {"setLocalCalendars", "addUuidToCalendars",
                    "saveSharedCalendar", "deleteCalendar",
                    "deleteCalendar:response"}
   \/ /\ last.act \in {"createCalendar", "updateCalendar", "addSection",
                       "removeSection"}
      /\ last.net = <<>>
      /\ last.ret.status = "resolved") =>
    /\ storage = Stringify(localCalendars)
    /\ ParseStored(storage) = localCalendars

\* removeSection ran on a selected local calendar, which keeps a section
\* and sits in a list of two, and storage holds that list
C19_Witness ==
  /\ last.act = "removeSection"
  /\ last.ret.status = "resolved"
  /\ last.net = <<>>
  /\ ~Truthy(calendar[1], "fromApi")
  /\ calendar[1].sections # <<>>
  /\ Len(localCalendars) = 2
  /\ localCalendars[1] = calendar[1]
  /\ localCalendars[2] # calendar[1]
  /\ storage = Stringify(localCalendars)

====
